---------------------------- MODULE Spec2Model ----------------------------
(***************************************************************************)
(* Model of the battle engine of Project Dex (src/dex.py).                 *)
(*                                                                         *)
(* Two entry points of the source are modelled:                            *)
(*   - the datastore-backed session, class Battle (initialize, get_moves,  *)
(*     submit_moves, finish_round), specification Spec;                    *)
(*   - the interactive loop battle() with get_user_choice, Hero.attack,    *)
(*     Hero.defend, the abilities, Team and end_game, specification        *)
(*     SpecBattle.                                                         *)
(* The methods of Hero and of the abilities are also called one at a time  *)
(* on freshly built teams, specification SpecHero.                         *)
(*                                                                         *)
(* Readings.  A few statements of class Battle cannot be evaluated by any  *)
(* Python 2 interpreter; they are read as follows, everything else         *)
(* (comparisons, indices, data flow, missing write-backs) is as written:   *)
(*   L213  self.players.index[user]    the position of user in players,    *)
(*                                     counted from 0 (list.index)         *)
(*   L219  iter(self.teams[user])      an iterator over the roster of      *)
(*                                     teams[user_index]                   *)
(*   L225-230 hero.agility, hero.ability   the member under the iterator:  *)
(*                                     member k+1 after k calls of next()  *)
(*   L235, L248 json.dumps/json.decode the simplejson encoder and decoder  *)
(*   L244  Team(health, magic, defense)    a pool object holding the three *)
(*                                     numbers and an empty defendors list *)
(*   L253  call = hero.ability         hero.ability.affect                 *)
(*   L259  print sys.log >> task       a log line, no effect on the state  *)
(***************************************************************************)
EXTENDS Integers, Sequences, FiniteSets, TLC

\* ------------------------------------------------------------------------
\* Bounds of the model
\* ------------------------------------------------------------------------

\* longest command list handed to submit_moves
MaxCmds == 2

\* rounds battle() is followed for
MaxRounds == 1

\* method calls made on a pair of teams when the methods of Hero and of the
\* abilities are called one at a time
MaxCalls == 3

\* longest command list of each player when the two orders of a pair of
\* submissions are compared
MaxPairCmds == 1

\* ------------------------------------------------------------------------
\* Program constants
\* ------------------------------------------------------------------------

\* sys.maxint, the priority key of a Defend move (32-bit build)
MaxInt == 2147483647

\* bounds of random.randint in Heal.affect
HealMin == 1
HealMax == 5

\* cost of the abilities: Ability.cost, inherited by Roar; Heal.cost
Cost == [Ability |-> 1, Heal |-> 2, Roar |-> 1]

\* class attributes of Hero and of its subclasses
Hero == [h_p |-> 1, m_p |-> 1, defense |-> 1, strength |-> 1, agility |-> 1,
         ability |-> "Ability"]

WeakMage == [Hero EXCEPT !.agility = 2, !.m_p = 2, !.ability = "Heal"]

WeakFighter == [Hero EXCEPT !.ability = "Roar"]

HeroClasses == {"Hero", "WeakMage", "WeakFighter"}

Stats(cls) ==
    CASE cls = "Hero" -> Hero
      [] cls = "WeakMage" -> WeakMage
      [] cls = "WeakFighter" -> WeakFighter

\* ------------------------------------------------------------------------
\* Helpers
\* ------------------------------------------------------------------------

RECURSIVE SumOver(_, _)
\* the running += of a loop over a roster; f names the attribute summed
SumOver(roster, f) ==
    IF roster = <<>> THEN 0
    ELSE Stats(Head(roster))[f] + SumOver(Tail(roster), f)

SeqsUpTo(S, n) == UNION {[1..k -> S] : k \in 0..n}


\* a list's negative index counts from the end (Python), None when out of range
PyIndex(list, i) ==
    IF i >= 0 /\ i < Len(list) THEN i + 1
    ELSE IF i < 0 /\ -i <= Len(list) THEN Len(list) + i + 1
    ELSE 0

\* ------------------------------------------------------------------------
\* Heroes, abilities and pools
\* ------------------------------------------------------------------------

\* A pool is what a task acts on: [h_p, m_p, defense, defendors].  A task is
\* [key, call, hero, cls, target]: the priority key, the bound method
\* ("attack", "defend", "affect", or "None" where get_user_choice returned
\* nothing), the acting member <<team, position>>, its class, and the
\* position of the target in the list of pools.

\* Hero.attack without the test "dmg > 0.0"
attack_unchecked(cls, target) ==
    LET dmg0 == Stats(cls).strength
        dmg  == IF target.defendors # <<>> THEN dmg0 - target.defense ELSE dmg0
        popped == IF target.defendors # <<>>
                  THEN [target EXCEPT !.defendors =
                            SubSeq(target.defendors, 1, Len(target.defendors) - 1)]
                  ELSE target
    IN [popped EXCEPT !.h_p = popped.h_p - dmg]

\* Hero.attack(target) for a hero of class cls: the target afterwards
attack(cls, target) ==
    LET dmg0 == Stats(cls).strength
        dmg  == IF target.defendors # <<>> THEN dmg0 - target.defense ELSE dmg0
        popped == IF target.defendors # <<>>
                  THEN [target EXCEPT !.defendors =
                            SubSeq(target.defendors, 1, Len(target.defendors) - 1)]
                  ELSE target
    IN IF dmg > 0 THEN [popped EXCEPT !.h_p = popped.h_p - dmg] ELSE popped

\* Hero.defend(target): the hero joins the target's defendors
defend(hero, target) == [target EXCEPT !.defendors = Append(target.defendors, hero)]

\* Heal.affect(target), amount being the value random.randint returned
HealAffect(target, amount) == [target EXCEPT !.h_p = target.h_p + amount]

\* Roar.affect that stops at a defense of 0
RoarAffect_floor(target) ==
    [target EXCEPT !.defense = IF target.defense > 0 THEN target.defense - 1 ELSE 0]

\* Roar.affect(target)
RoarAffect(target) == [target EXCEPT !.defense = target.defense - 1]

\* whether running a task raises: Ability.affect is not implemented, and
\* None cannot be subscripted
Raises(task) ==
    \/ task.call = "None"
    \/ task.call = "affect" /\ Stats(task.cls).ability = "Ability"

\* task[1].__call__(task[2]): the pools after one task
RunTask(task, pools, amount) ==
    LET target == pools[task.target]
        after ==
            CASE task.call = "attack" -> attack(task.cls, target)
              [] task.call = "defend" -> defend(task.hero, target)
              [] task.call = "affect" /\ Stats(task.cls).ability = "Heal"
                    -> HealAffect(target, amount)
              [] task.call = "affect" /\ Stats(task.cls).ability = "Roar"
                    -> RoarAffect(target)
              [] OTHER -> target
    IN [pools EXCEPT ![task.target] = after]

RECURSIVE RunTasks_until_death(_, _, _, _)
\* the task loop leaving as soon as a pool has fallen below 1
RunTasks_until_death(ts, i, pools, amounts) ==
    IF i > Len(ts) THEN [pools |-> pools, ran |-> Len(ts), raised |-> FALSE]
    ELSE IF Raises(ts[i]) THEN [pools |-> pools, ran |-> i - 1, raised |-> TRUE]
    ELSE IF \E t \in 1..Len(pools) : pools[t].h_p < 1
    THEN [pools |-> pools, ran |-> i - 1, raised |-> FALSE]
    ELSE RunTasks_until_death(ts, i + 1, RunTask(ts[i], pools, amounts[i]), amounts)

RECURSIVE RunTasks(_, _, _, _)
\* the loop "for task in tasks": runs the tasks from position i on, amounts[j]
\* being the random number drawn by task j.  Stops at the first task that
\* raises.  Result: the pools, how many tasks ran, whether one raised.
RunTasks(ts, i, pools, amounts) ==
    IF i > Len(ts) THEN [pools |-> pools, ran |-> Len(ts), raised |-> FALSE]
    ELSE IF Raises(ts[i]) THEN [pools |-> pools, ran |-> i - 1, raised |-> TRUE]
    ELSE RunTasks(ts, i + 1, RunTask(ts[i], pools, amounts[i]), amounts)

\* the order of two tasks under tuple comparison, as far as it is fixed:
\* None sorts before every tuple, tuples by their first field; tuples with
\* equal first fields are ordered by the bound methods, that is by object
\* identity, which no run fixes
KeyLeq(a, b) ==
    \/ a.call = "None"
    \/ b.call # "None" /\ a.key <= b.key

\* tasks.sort(): every order the sort can produce
Sorted(ts) ==
    LET n == Len(ts)
        ok(p) == \A i, j \in 1..n : i < j => KeyLeq(ts[p[i]], ts[p[j]])
    IN { [i \in 1..n |-> ts[p[i]]] : p \in {q \in Permutations(1..n) : ok(q)} }

\* the random draws of a task list: one per Heal task, 0 where none is drawn
Amounts(ts) ==
    LET heals == { i \in 1..Len(ts) :
                     ts[i].call = "affect" /\ Stats(ts[i].cls).ability = "Heal" }
    IN { [i \in 1..Len(ts) |-> IF i \in heals THEN f[i] ELSE 0] :
           f \in [heals -> HealMin..HealMax] }

\* ------------------------------------------------------------------------
\* The session: class Battle
\* ------------------------------------------------------------------------

VARIABLES
    teams,      \* Battle.teams: the rosters, one per player
    moves1,     \* Battle.moves1: encoded move-sets
    moves2,     \* Battle.moves2
    tasks,      \* Battle.tasks: one entry per resolved round
    health,     \* Battle.health, per player
    magic,      \* Battle.magic
    defense,    \* Battle.defense
    call        \* the last call made on the session and how it ended

\* the variables of the session
svars == <<teams, moves1, moves2, tasks, health, magic, defense, call>>

VARIABLES
    bteams,     \* battle(): the list teams, one Team object per entry
    btasks,     \* battle(): the local list tasks of the round being played
    turn,       \* battle(): <<team, member>> whose choice is awaited
    pc,         \* battle(): "choose", "done" (returned) or "raised"
    round,      \* battle(): number of the round being played
    standings,  \* battle(): the value returned
    lastround   \* battle(): what the last task loop was given and did

\* the variables of the interactive battle
bvars == <<bteams, btasks, turn, pc, round, standings, lastround>>

VARIABLES
    hteams,     \* the Team objects the methods of a hero are called on
    hcall,      \* the last method called on them, and the target before it
    hcalls      \* how many methods were called

\* the variables of the single method calls
hvars == <<hteams, hcall, hcalls>>

\* self.players as set by initialize, and a user who is not in it
players == <<"player1", "player2">>

Users == {"player1", "player2", "stranger"}

\* the rosters a session is created with and battle() is called with:
\* first team, second team
Lineups ==
    { << <<"WeakFighter">>, <<"WeakMage">> >>,
      << <<"WeakMage">>, <<"WeakFighter">> >>,
      << <<"WeakFighter">>, <<"WeakFighter">> >>,
      << <<"WeakMage", "WeakFighter">>, <<"WeakFighter">> >>,
      << <<"WeakFighter">>, <<"WeakMage", "WeakFighter">> >>,
      << <<"WeakFighter">>, <<"Hero", "WeakMage">> >> }

\* the values a command may carry: choice and target as sent by the client
Choices == 1..4

Targets == 0..3

Commands == SeqsUpTo(Choices \X Targets, MaxCmds)

\* Battle.initialize: the battle stats, summed from the rosters
initialize(ts) ==
    [ health  |-> [i \in 1..Len(players) |-> SumOver(ts[i], "h_p")],
      magic   |-> [i \in 1..Len(players) |-> SumOver(ts[i], "m_p")],
      defense |-> [i \in 1..Len(players) |-> SumOver(ts[i], "defense")] ]

\* list.index: position of user in players, counted from 0
IndexOf(user) == CHOOSE i \in 0..(Len(players) - 1) : players[i + 1] = user

\* get_moves handing out moves1 whatever the index
get_moves_one_list(i) == "moves1"

\* get_moves with both branches returning moves1
get_moves_same_list(i) ==
    IF i = 1 THEN "moves1"
    ELSE IF i = 2 THEN "moves1"
    ELSE "raise"

\* Battle.get_moves: "moves1" for 1, "moves2" for 2, otherwise it raises
get_moves(i) ==
    IF i = 1 THEN "moves1"
    ELSE IF i = 2 THEN "moves2"
    ELSE "raise"

\* the two lists taken for one another
MovesOf_swapped(name, m1, m2) == IF name = "moves1" THEN m2 ELSE m1

\* the list a name returned by get_moves stands for
MovesOf(name, m1, m2) == IF name = "moves1" THEN m1 ELSE m2

\* simplejson.dumps of a bucket: tuples become arrays of a JSON text
dumps(bucket) == [json |-> bucket]

\* simplejson.loads: the arrays of the text, as lists
loads(text) == text.json

\* the malformed-command test of submit_moves, as written:
\* 3 < choice < 1 or 1 > target > len(self.players)
Malformed(choice, target) ==
    \/ (3 < choice /\ choice < 1)
    \/ (1 > target /\ target > Len(players))

\* magic > hero.ability.cost
CanAfford(mana, cost) == mana > cost

RECURSIVE SubmitLoop(_, _, _, _, _)
\* the loop of submit_moves over commands: roster is the iterated team, k the
\* number of next() calls made so far, bucket and mana the locals.  The
\* result holds the bucket, the local magic and whether the loop raised.
SubmitLoop(cmds, roster, k, bucket, mana) ==
    IF cmds = <<>> THEN [bucket |-> bucket, magic |-> mana, raised |-> FALSE]
    ELSE
      LET choice == Head(cmds)[1]
          target == Head(cmds)[2]
          exhausted == k >= Len(roster)
          hero == Stats(roster[k + 1])
          advance(b, m) ==
              \* hero.next(), StopIteration once the roster is used up
              IF exhausted
              THEN [bucket |-> b, magic |-> m, raised |-> TRUE]
              ELSE SubmitLoop(Tail(cmds), roster, k + 1, b, m)
      IN
      IF Malformed(choice, target) THEN advance(bucket, mana)
      ELSE IF choice \in {1, 3} /\ exhausted
      THEN \* no member is left to read agility or ability from
           [bucket |-> bucket, magic |-> mana, raised |-> TRUE]
      ELSE
        LET accepted3 == choice = 3 /\ CanAfford(mana, Cost[hero.ability])
            b2 == IF choice = 1
                      THEN Append(bucket, <<hero.agility, 1, target - 1>>)
                  ELSE IF choice = 2
                      THEN Append(bucket, <<MaxInt, 2, target - 1>>)
                  ELSE IF accepted3
                      THEN Append(bucket, <<hero.agility, 3, target - 1>>)
                  ELSE bucket
            m2 == IF accepted3 THEN mana - Cost[hero.ability] ELSE mana
        IN IF Len(b2) >= Len(roster)
           THEN [bucket |-> b2, magic |-> m2, raised |-> FALSE]
           ELSE advance(b2, m2)

\* what a call submit_moves(user, commands) does when the two move lists
\* hold m1 and m2: how it ends, the list it chose, what it returns, what is
\* left of the local magic, and the two lists afterwards
Submitted(user, commands, m1, m2) ==
    LET fail(what) ==
            [outcome |-> what, queue |-> "none", echo |-> dumps(<<>>),
             local |-> 0, moves1 |-> m1, moves2 |-> m2]
    IN
    IF user \notin {players[i] : i \in 1..Len(players)}
    THEN fail("Invalid user")
    ELSE
      LET user_index == IndexOf(user)
          moves == get_moves(user_index)
      IN
      IF moves = "raise" THEN fail("Index out of range")
      ELSE IF Len(MovesOf(moves, m1, m2)) > Len(tasks)
      THEN fail("already submitted")
      ELSE
        LET r == SubmitLoop(commands, teams[user_index + 1], 0, <<>>,
                            magic[user_index + 1])
        IN
        IF r.raised THEN fail("StopIteration")
        ELSE
          [outcome |-> "ok", queue |-> moves, echo |-> dumps(r.bucket),
           local |-> r.magic,
           moves1 |-> IF moves = "moves1"
                      THEN Append(m1, dumps(r.bucket)) ELSE m1,
           moves2 |-> IF moves = "moves2"
                      THEN Append(m2, dumps(r.bucket)) ELSE m2]

\* Battle.submit_moves(user, commands)
submit_moves(user, commands) ==
    LET r == Submitted(user, commands, moves1, moves2)
    IN /\ moves1' = r.moves1
       /\ moves2' = r.moves2
       /\ call' = [op |-> "submit_moves", user |-> user, outcome |-> r.outcome,
                   queue |-> r.queue, echo |-> r.echo, local |-> r.local]
       /\ UNCHANGED <<teams, tasks, health, magic, defense>>
       /\ UNCHANGED bvars

\* whether queue[-1] finds an element
HasLast(queue) == Len(queue) > 0

RECURSIVE ZipTasks(_, _, _, _)
\* "for hero, tup in zip(team, tuples)" of finish_round for team number t,
\* from position j on: one task per pair; target 0 when pools[tup[2]] raises
ZipTasks(t, roster, tuples, j) ==
    IF j > Len(roster) \/ j > Len(tuples) THEN <<>>
    ELSE
      LET tup == tuples[j]
          task == [ key    |-> tup[1],
                    call   |-> IF tup[2] = 1 THEN "attack"
                               ELSE IF tup[2] = 3 THEN "affect" ELSE "defend",
                    hero   |-> <<t, j>>,
                    cls    |-> roster[j],
                    target |-> PyIndex(players, tup[3]) ]
      IN <<task>> \o ZipTasks(t, roster, tuples, j + 1)

\* Battle.finish_round()
finish_round ==
    LET fail(what) ==
            /\ call' = [op |-> "finish_round", user |-> "none", outcome |-> what,
                        queue |-> "none", echo |-> dumps(<<>>), local |-> 0]
            /\ UNCHANGED <<teams, moves1, moves2, tasks, health, magic, defense>>
            /\ UNCHANGED bvars
    IN
    IF \E i \in 1..Len(players) : get_moves(i) = "raise"
    THEN fail("Index out of range")
    ELSE IF \E i \in 1..Len(players) :
                ~HasLast(MovesOf(get_moves(i), moves1, moves2))
    THEN fail("IndexError")
    ELSE
      LET moves == [i \in 1..Len(players) |->
                       LET list == MovesOf(get_moves(i), moves1, moves2)
                       IN list[Len(list)]]
          pools == [i \in 1..Len(players) |->
                       [h_p |-> health[i], m_p |-> magic[i],
                        defense |-> defense[i], defendors |-> <<>>]]
          built == ZipTasks(1, teams[1], loads(moves[1]), 1)
                   \o ZipTasks(2, teams[2], loads(moves[2]), 1)
      IN
      IF \E i \in 1..Len(built) : built[i].target = 0 THEN fail("IndexError")
      ELSE
        \E sorted \in Sorted(built) : \E amounts \in Amounts(sorted) :
          LET r == RunTasks(sorted, 1, pools, amounts)
          IN IF r.raised THEN fail("NotImplementedError")
             ELSE
               /\ tasks' = Append(tasks, sorted)
               /\ call' = [op |-> "finish_round", user |-> "none", outcome |-> "ok",
                           queue |-> "none", echo |-> dumps(<<>>), local |-> 0]
               /\ UNCHANGED <<teams, moves1, moves2, health, magic, defense>>
               /\ UNCHANGED bvars

\* whether submit_moves raises before it reads the commands (L211-216)
RefusedUnread(user) ==
    \/ user \notin {players[i] : i \in 1..Len(players)}
    \/ get_moves(IndexOf(user)) = "raise"
    \/ Len(MovesOf(get_moves(IndexOf(user)), moves1, moves2)) > Len(tasks)

\* the command lists to tell apart for a call by user: a call that raises
\* before the commands are read ends the same way for every list
CommandsRead(user) == IF RefusedUnread(user) THEN {<<>>} ELSE Commands

SubmitMoves ==
    /\ \E user \in Users :
         \E commands \in CommandsRead(user) : submit_moves(user, commands)
    /\ UNCHANGED hvars

FinishRound == finish_round /\ UNCHANGED hvars

NoCall ==
    [op |-> "none", user |-> "none", outcome |-> "none",
     queue |-> "none", echo |-> dumps(<<>>), local |-> 0]

\* no method called yet
NoMethod ==
    [op |-> "none", hero |-> <<0, 0>>, cls |-> "none", target |-> 0,
     before |-> <<>>, raised |-> FALSE]

\* no hero called outside a session or battle()
HeroIdle ==
    /\ hteams = <<>>
    /\ hcall = NoMethod
    /\ hcalls = 0

\* no round played yet
NoRound == [sorted |-> <<>>, ran |-> 0, before |-> <<>>]

\* battle() not running
BattleIdle ==
    /\ bteams = <<>>
    /\ btasks = <<>>
    /\ turn = <<0, 0>>
    /\ pc = "idle"
    /\ round = 0
    /\ standings = <<>>
    /\ lastround = NoRound

\* a session created with two rosters, after initialize()
Init ==
    /\ teams \in Lineups
    /\ moves1 = <<>>
    /\ moves2 = <<>>
    /\ tasks = <<>>
    /\ health = initialize(teams).health
    /\ magic = initialize(teams).magic
    /\ defense = initialize(teams).defense
    /\ call = NoCall
    /\ BattleIdle
    /\ HeroIdle

vars == <<teams, moves1, moves2, tasks, health, magic, defense, call,
          bteams, btasks, turn, pc, round, standings, lastround,
          hteams, hcall, hcalls>>

Next == SubmitMoves \/ FinishRound

Spec == Init /\ [][Next]_vars

\* ------------------------------------------------------------------------
\* The interactive battle: battle(), get_user_choice, Team, end_game
\* ------------------------------------------------------------------------

\* Team.__init__(name, players)
Team(name, roster) ==
    [ name      |-> name,
      players   |-> roster,
      h_p       |-> SumOver(roster, "h_p"),
      m_p       |-> SumOver(roster, "strength"),
      defense   |-> SumOver(roster, "defense"),
      defendors |-> <<>> ]

\* reset leaving the defendors in place
reset_keeps(team) == team

\* Team.reset()
reset(team) == [team EXCEPT !.defendors = <<>>]

\* end_game testing for health below 0
end_game_below_zero(ts) == \E i \in 1..Len(ts) : ts[i].h_p < 0

\* end_game(teams)
end_game(ts) == \E i \in 1..Len(ts) : ts[i].h_p < 1

\* the choices get_user_choice offers a hero of class cls on a team
Offered(cls, team) ==
    IF Cost[Stats(cls).ability] > team.m_p THEN {1, 2} ELSE {1, 2, 3}

\* the order of two team names as strings
NameLess(a, b) == a = "blu" /\ b = "red"

\* the order of two entries (h_p, name) of standings under tuple comparison
StandingLess(a, b) == a[1] < b[1] \/ (a[1] = b[1] /\ NameLess(a[2], b[2]))

\* standings of battle(): sorted ascending, then reversed
Standings(ts) ==
    LET entries == [i \in 1..Len(ts) |-> <<ts[i].h_p, ts[i].name>>]
        n == Len(ts)
        asc == CHOOSE p \in Permutations(1..n) :
                   \A i, j \in 1..n :
                       i < j => ~StandingLess(entries[p[j]], entries[p[i]])
    IN [i \in 1..n |-> entries[asc[n + 1 - i]]]

\* whether <<t, j>> is the last hero asked in a round
LastHero(ts, t, j) == t = Len(ts) /\ j = Len(ts[t].players)

\* the hero asked after <<t, j>>
NextHero(ts, t, j) == IF j < Len(ts[t].players) THEN <<t, j + 1>> ELSE <<t + 1, 1>>

\* get_user_choice(hero, team, teams) for the hero at <<t, j>>, choice and
\* target being the values typed in: the teams afterwards and what is returned
get_user_choice(ts, t, j, choice, target) ==
    LET team == ts[t]
        cls == team.players[j]
        none == [key |-> 0, call |-> "None", hero |-> <<t, j>>, cls |-> cls,
                 target |-> 0]
    IN
    IF choice = 2
    THEN [teams |-> [ts EXCEPT ![t] = defend(<<t, j>>, team)], task |-> none]
    ELSE IF choice = 1
    THEN [teams |-> ts,
          task |-> [key |-> Stats(cls).agility, call |-> "attack",
                    hero |-> <<t, j>>, cls |-> cls, target |-> target]]
    ELSE [teams |-> [ts EXCEPT ![t].m_p = team.m_p - Cost[Stats(cls).ability]],
          task |-> [key |-> Stats(cls).agility, call |-> "affect",
                    hero |-> <<t, j>>, cls |-> cls, target |-> target]]

\* One pass of battle() from one answered prompt to the next: the choice of
\* the hero whose turn it is and, after the last hero of the round, the
\* sort, the task loop, the resets and the test of the while loop.
Choose ==
    /\ pc = "choose"
    /\ round <= MaxRounds
    /\ \E choice \in Offered(bteams[turn[1]].players[turn[2]], bteams[turn[1]]),
          target \in 1..Len(bteams) :
         LET g == get_user_choice(bteams, turn[1], turn[2], choice, target)
             collected == Append(btasks, g.task)
         IN
         IF ~LastHero(bteams, turn[1], turn[2])
         THEN /\ bteams' = g.teams
              /\ btasks' = collected
              /\ turn' = NextHero(bteams, turn[1], turn[2])
              /\ UNCHANGED <<pc, round, standings, lastround>>
         ELSE
           \E sorted \in Sorted(collected) : \E amounts \in Amounts(sorted) :
             LET r == RunTasks(sorted, 1, g.teams, amounts)
                 after == [i \in 1..Len(bteams) |-> reset(r.pools[i])]
             IN
             /\ lastround' = [sorted |-> sorted, ran |-> r.ran, before |-> g.teams]
             /\ IF r.raised
                THEN /\ pc' = "raised"
                     /\ bteams' = r.pools
                     /\ btasks' = sorted
                     /\ UNCHANGED <<turn, round, standings>>
                ELSE IF end_game(after)
                THEN /\ pc' = "done"
                     /\ bteams' = after
                     /\ btasks' = sorted
                     /\ standings' = Standings(after)
                     /\ UNCHANGED <<turn, round>>
                ELSE /\ bteams' = after
                     /\ btasks' = <<>>
                     /\ turn' = <<1, 1>>
                     /\ round' = round + 1
                     /\ UNCHANGED <<pc, standings>>
    /\ UNCHANGED svars
    /\ UNCHANGED hvars

\* names battle() is called with, in either order of the list
TeamNames == {<<"red", "blu">>, <<"blu", "red">>}

\* defendors of team t when battle() is called: none, or its first member,
\* who was told to defend (Hero.defend) before the call
EarlierDefendors(t) == {<<>>, << <<t, 1>> >>}

\* the session not in use
SessionIdle ==
    /\ teams = <<>>
    /\ moves1 = <<>>
    /\ moves2 = <<>>
    /\ tasks = <<>>
    /\ health = <<>>
    /\ magic = <<>>
    /\ defense = <<>>
    /\ call = NoCall

\* battle(teams) called with two teams
InitBattle ==
    /\ \E names \in TeamNames, lineup \in Lineups :
       \E d1 \in EarlierDefendors(1), d2 \in EarlierDefendors(2) :
         bteams = << [Team(names[1], lineup[1]) EXCEPT !.defendors = d1],
                     [Team(names[2], lineup[2]) EXCEPT !.defendors = d2] >>
    /\ btasks = <<>>
    /\ turn = <<1, 1>>
    /\ pc = "choose"
    /\ round = 1
    /\ standings = <<>>
    /\ lastround = NoRound
    /\ SessionIdle
    /\ HeroIdle

NextBattle == Choose

SpecBattle == InitBattle /\ [][NextBattle]_vars

\* ------------------------------------------------------------------------
\* The methods of Hero and of the abilities, called one at a time
\* ------------------------------------------------------------------------

\* the heroes of a list of teams, as <<team, position>>
Members(ts) ==
    UNION { {<<t, j>> : j \in 1..Len(ts[t].players)} : t \in 1..Len(ts) }

\* the class of the hero h of hteams
ClassOf(h) == hteams[h[1]].players[h[2]]

\* what a method call leaves in hcall
Called(op, h, tgt, raised) ==
    [op |-> op, hero |-> h, cls |-> ClassOf(h), target |-> tgt,
     before |-> hteams[tgt], raised |-> raised]

\* hero.attack(target)
HeroAttack ==
    /\ hcalls < MaxCalls
    /\ \E h \in Members(hteams), tgt \in 1..Len(hteams) :
         /\ hteams' = [hteams EXCEPT ![tgt] = attack(ClassOf(h), hteams[tgt])]
         /\ hcall' = Called("attack", h, tgt, FALSE)
    /\ hcalls' = hcalls + 1
    /\ UNCHANGED <<svars, bvars>>

\* hero.defend(target)
HeroDefend ==
    /\ hcalls < MaxCalls
    /\ \E h \in Members(hteams), tgt \in 1..Len(hteams) :
         /\ hteams' = [hteams EXCEPT ![tgt] = defend(h, hteams[tgt])]
         /\ hcall' = Called("defend", h, tgt, FALSE)
    /\ hcalls' = hcalls + 1
    /\ UNCHANGED <<svars, bvars>>

\* hero.ability.affect(target): Heal.affect, Roar.affect, or Ability.affect,
\* which raises NotImplementedError
AbilityAffect ==
    /\ hcalls < MaxCalls
    /\ \E h \in Members(hteams), tgt \in 1..Len(hteams) :
         LET ability == Stats(ClassOf(h)).ability
         IN IF ability = "Heal"
            THEN \E amount \in HealMin..HealMax :
                   /\ hteams' = [hteams EXCEPT
                                    ![tgt] = HealAffect(hteams[tgt], amount)]
                   /\ hcall' = Called("affect", h, tgt, FALSE)
            ELSE IF ability = "Roar"
            THEN /\ hteams' = [hteams EXCEPT ![tgt] = RoarAffect(hteams[tgt])]
                 /\ hcall' = Called("affect", h, tgt, FALSE)
            ELSE /\ hteams' = hteams
                 /\ hcall' = Called("affect", h, tgt, TRUE)
    /\ hcalls' = hcalls + 1
    /\ UNCHANGED <<svars, bvars>>

\* two teams just built by Team.__init__
InitHero ==
    /\ \E lineup \in Lineups :
         hteams = <<Team("red", lineup[1]), Team("blu", lineup[2])>>
    /\ hcall = NoMethod
    /\ hcalls = 0
    /\ SessionIdle
    /\ BattleIdle

NextHeroCall == HeroAttack \/ HeroDefend \/ AbilityAffect

SpecHero == InitHero /\ [][NextHeroCall]_vars

\* ------------------------------------------------------------------------
\* Properties of the session
\* ------------------------------------------------------------------------

\* the users who take part in the session
Participants == {players[i] : i \in 1..Len(players)}

\* the squad of a participant: its position in players, from 1
SquadOf(user) == CHOOSE i \in 1..Len(players) : players[i] = user

\* the move queue of squad i: finish_round pairs moves1 with teams[0] and
\* moves2 with teams[1]
QueueOf(i, m1, m2) == IF i = 1 THEN m1 ELSE m2

\* the step was a call of submit_moves that returned a move-set
Accepted == call'.op = "submit_moves" /\ call'.outcome = "ok"

\* the errors that tell a caller it is no part of the session
InvalidParticipant == {"Invalid user", "Index out of range"}

\* C1: an accepted submit_moves call of a squad appends exactly one move-set
\* to the queue of that squad and leaves the queue of the other squad alone,
\* and a call of a squad that already has a move-set for the round fails
\* with "already submitted" and changes no queue.
C1_OneMoveSetPerSquadAndRound ==
    [][ /\ Accepted =>
             LET s == SquadOf(call'.user)
             IN /\ QueueOf(s, moves1', moves2')
                      = Append(QueueOf(s, moves1, moves2), call'.echo)
                /\ QueueOf(3 - s, moves1', moves2') = QueueOf(3 - s, moves1, moves2)
        /\ ( /\ call'.op = "submit_moves"
             /\ call'.user \in Participants
             /\ Len(QueueOf(SquadOf(call'.user), moves1, moves2)) > Len(tasks) )
           => /\ call'.outcome = "already submitted"
              /\ UNCHANGED <<moves1, moves2>>
      ]_vars

\* C3: after an accepted submit_moves call the mana pool of the acting squad
\* is its mana before the call less the cost of the abilities accepted in
\* the call (what the local variable magic has come down to), and no mana
\* pool is ever negative.
C3_ManaReserved ==
    [][ /\ Accepted => magic'[SquadOf(call'.user)] = call'.local
        /\ \A i \in 1..Len(magic') : magic'[i] >= 0
      ]_vars

\* the tuples of the move-sets of a queue
TuplesOf(queue) ==
    UNION { {loads(queue[n])[k] : k \in 1..Len(loads(queue[n]))} : n \in 1..Len(queue) }

\* C5: no move tuple is recorded for a command whose choice is not Attack,
\* Defend or Ability or whose target is no squad of the session: every
\* recorded tuple has a kind in 1..3 and the index of a squad as its target.
C5_MalformedCommandsSkipped ==
    \A tup \in TuplesOf(moves1) \cup TuplesOf(moves2) :
        /\ tup[2] \in {1, 2, 3}
        /\ tup[3] \in 0..(Len(players) - 1)

\* C10: submit_moves fails with the invalid-participant error, and changes
\* no queue, mana pool or task log, when the user is no participant, and
\* does not fail with that error when the user is one.
C10_InvalidParticipant ==
    [][ call'.op = "submit_moves" =>
          IF call'.user \in Participants
          THEN call'.outcome \notin InvalidParticipant
          ELSE /\ call'.outcome \in InvalidParticipant
               /\ UNCHANGED <<moves1, moves2, magic, tasks>>
      ]_vars

\* a squad has no move-set for the round being played
NotSubmitted(i) == Len(QueueOf(i, moves1, moves2)) <= Len(tasks)

InOrder(u1, c1, u2, c2) ==
    LET a == Submitted(u1, c1, moves1, moves2)
        b == Submitted(u2, c2, a.moves1, a.moves2)
    IN [moves1 |-> b.moves1, moves2 |-> b.moves2,
        first  |-> <<a.outcome, a.echo, a.local>>,
        second |-> <<b.outcome, b.echo, b.local>>]

TasksOfCall ==
    LET s == SquadOf(call.user)
    IN ZipTasks(s, teams[s], loads(call.echo), 1)

\* C14: every Attack or Ability task built from an accepted move-set is
\* bound to the combatant whose command produced the move, so its priority
\* key is the agility of the hero the task is bound to, also when an
\* earlier combatant of the squad contributed no move.
C14_TaskBoundToItsCombatant ==
    (call.op = "submit_moves" /\ call.outcome = "ok") =>
        \A i \in 1..Len(TasksOfCall) :
            TasksOfCall[i].call \in {"attack", "affect"}
                => TasksOfCall[i].key = Stats(TasksOfCall[i].cls).agility

\* C17: every Defend task built from an accepted move-set is aimed at the
\* squad of the hero it is bound to, so that the hero joins the defendors
\* of its own squad whatever target the command carried.
C17_DefendJoinsOwnSquad ==
    (call.op = "submit_moves" /\ call.outcome = "ok") =>
        \A i \in 1..Len(TasksOfCall) :
            TasksOfCall[i].call = "defend"
                => TasksOfCall[i].target = TasksOfCall[i].hero[1]

\* the pools finish_round builds from the battle stats
PoolsOfSession ==
    [i \in 1..Len(players) |->
        [h_p |-> health[i], m_p |-> magic[i], defense |-> defense[i],
         defendors |-> <<>>]]

\* C16: the battle stats of the session carry every change over to the next
\* round and change in no other way: a call of submit_moves leaves health
\* and defense alone and takes from the mana of the acting squad exactly
\* the mana the accepted move-set reserved; a call of finish_round that
\* resolves a round leaves each stat at the value the tasks of the round
\* gave it, and a call that fails leaves the stats alone.
C16_PoolsPersist ==
    [][ /\ call'.op = "submit_moves" =>
              /\ health' = health
              /\ defense' = defense
              /\ magic' = IF Accepted
                          THEN [magic EXCEPT ![SquadOf(call'.user)] = call'.local]
                          ELSE magic
        /\ call'.op = "finish_round" =>
              IF call'.outcome = "ok"
              THEN \E amounts \in Amounts(tasks'[Len(tasks')]) :
                     LET r == RunTasks(tasks'[Len(tasks')], 1, PoolsOfSession,
                                       amounts)
                     IN \A i \in 1..Len(players) :
                           /\ health'[i] = r.pools[i].h_p
                           /\ magic'[i] = r.pools[i].m_p
                           /\ defense'[i] = r.pools[i].defense
              ELSE UNCHANGED <<health, magic, defense>>
      ]_vars

\* ------------------------------------------------------------------------
\* Properties of the interactive battle
\* ------------------------------------------------------------------------

\* the task loop of the last round ran to its end
RoundResolved ==
    /\ lastround # NoRound
    /\ pc # "raised"
    /\ pc = "choose" => btasks = <<>>

\* C2: the tasks of a round run in ascending order of their priority keys,
\* and a Defend runs only after every Attack and Ability task of its round:
\* no Defend has taken effect while an Attack or Ability task of the round
\* is still waiting to run.
C2_AscendingDefendLast ==
    /\ \A i, j \in 1..lastround.ran :
          i < j => lastround.sorted[i].key <= lastround.sorted[j].key
    /\ ~RoundResolved =>
          \A i, j \in 1..Len(btasks) :
              ~(btasks[i].call = "None" /\ btasks[j].call \in {"attack", "affect"})

\* C4: an ability is not accepted from a squad whose mana equals its cost:
\* a step takes mana from a squad only if the mana exceeded what it takes.
C4_StrictlyMoreManaThanCost ==
    [][ \A t \in 1..Len(bteams) :
          bteams'[t].m_p < bteams[t].m_p
              => bteams[t].m_p > bteams[t].m_p - bteams'[t].m_p
      ]_vars

\* C6: after every round that was resolved, the defendors of every team are
\* empty, whatever they held when the round started.
C6_DefendorsEmptyAfterRound ==
    RoundResolved => \A t \in 1..Len(bteams) : bteams[t].defendors = <<>>

\* C6, its case: a round was resolved that a team entered with a defender
\* left over by no attack
C6_ResolvedWithDefender ==
    /\ RoundResolved
    /\ \E t \in 1..Len(bteams) :
          /\ lastround.before[t].defendors # <<>>
          /\ \A i \in 1..Len(lastround.sorted) : lastround.sorted[i].target # t

\* C7: when a member of squad X chose Defend and an opponent attacked X in
\* the same round, the attack found X without defenders and took its full
\* strength from X's health: X had no defenders when the task loop began and
\* every task of the round ran.
C7_DefendNotRetroactive ==
    \A x \in 1..Len(bteams) :
        ( /\ lastround # NoRound
          /\ \E i \in 1..Len(lastround.sorted) :
                /\ lastround.sorted[i].call = "None"
                /\ lastround.sorted[i].hero[1] = x
          /\ \E j \in 1..Len(lastround.sorted) :
                /\ lastround.sorted[j].call = "attack"
                /\ lastround.sorted[j].target = x
                /\ lastround.sorted[j].hero[1] # x )
        => /\ lastround.before[x].defendors = <<>>
           /\ lastround.ran = Len(lastround.sorted)

Ran(P(_)) == {i \in 1..lastround.ran : P(lastround.sorted[i])}

RECURSIVE Strength(_)
\* the strength of the heroes of the tasks at the positions I of the last round
Strength(I) ==
    IF I = {} THEN 0
    ELSE LET i == CHOOSE x \in I : TRUE
         IN Stats(lastround.sorted[i].cls).strength + Strength(I \ {i})

C12_StandingsByHealthThenRegistration ==
    pc = "done" =>
      LET n == Len(bteams)
      IN /\ Len(standings) = n
         /\ \E p \in Permutations(1..n) :
               /\ \A i \in 1..n :
                     standings[i] = <<bteams[p[i]].h_p, bteams[p[i]].name>>
               /\ \A i, j \in 1..n :
                     i < j =>
                       \/ bteams[p[i]].h_p > bteams[p[j]].h_p
                       \/ bteams[p[i]].h_p = bteams[p[j]].h_p /\ p[i] < p[j]

\* hero a is asked, and its task appended, before hero b
AskedBefore(a, b) == a[1] < b[1] \/ (a[1] = b[1] /\ a[2] < b[2])

\* C15: tasks of a round with equal priority keys are run in the order in
\* which they were appended, team by team and member by member: the sort
\* keeps the order of equal keys.
C15_TiesInInsertionOrder ==
    \A i, j \in 1..Len(lastround.sorted) :
        ( /\ i < j
          /\ lastround.sorted[i].call # "None"
          /\ lastround.sorted[j].call # "None"
          /\ lastround.sorted[i].key = lastround.sorted[j].key )
        => AskedBefore(lastround.sorted[i].hero, lastround.sorted[j].hero)

\* ------------------------------------------------------------------------
\* Properties of the methods of Hero and of the abilities
\* ------------------------------------------------------------------------

\* C18: a team just built has as health, mana and defense the sums of the
\* health, mana and defense of its members and has no defendors, and these
\* pools are the battle stats Battle.initialize computes for the same rosters.
C18_PoolsSummedAtConstruction ==
    (hcalls = 0 /\ hteams # <<>>) =>
        LET rosters == [t \in 1..Len(hteams) |-> hteams[t].players]
        IN \A t \in 1..Len(hteams) :
              /\ hteams[t].h_p = SumOver(rosters[t], "h_p")
              /\ hteams[t].m_p = SumOver(rosters[t], "m_p")
              /\ hteams[t].defense = SumOver(rosters[t], "defense")
              /\ hteams[t].defendors = <<>>
              /\ hteams[t].h_p = initialize(rosters).health[t]
              /\ hteams[t].m_p = initialize(rosters).magic[t]
              /\ hteams[t].defense = initialize(rosters).defense[t]

C20_AbilityEffects ==
    [][ hcall'.op = "affect" =>
          LET t == hcall'.target
              b == hteams[t]
              a == hteams'[t]
              ability == Stats(hcall'.cls).ability
          IN /\ \A u \in 1..Len(hteams) : u # t => hteams'[u] = hteams[u]
             /\ a.m_p = b.m_p
             /\ a.defendors = b.defendors
             /\ a.players = b.players
             /\ a.name = b.name
             /\ ability = "Roar" =>
                   /\ ~hcall'.raised
                   /\ a.defense = b.defense - 1
                   /\ a.h_p = b.h_p
             /\ ability = "Heal" =>
                   /\ ~hcall'.raised
                   /\ a.h_p - b.h_p \in 1..5
                   /\ a.defense = b.defense
             /\ ability = "Ability" =>
                   /\ hcall'.raised
                   /\ a = b
      ]_vars

\* C20, its case: a Roar on a team other than the caster's whose defense an
\* earlier Roar had already brought to 0: the defense is now -1
C20_RoarBelowZero ==
    /\ hcall.op = "affect"
    /\ Stats(hcall.cls).ability = "Roar"
    /\ hcall.target # hcall.hero[1]
    /\ hcall.before.defense = 0
    /\ hteams[hcall.target].defense = -1

=============================================================================
